---- MODULE Spec2Model ----
(***************************************************************************)
(* Build orchestration of ashiqtasdid/gemini_api.                          *)
(*                                                                         *)
(* The build script (bash.sh, two revisions: src/bash.sh and               *)
(* src/unnamed/part_007) runs as a separate OS process, spawned by the     *)
(* express routes (src/src/routes/build.ts, the auto-fix build route in    *)
(* src/src/routes/buildLogs.ts, buildPlugin of services/buildQueue.ts) or  *)
(* from a shell.  The node server is single threaded: one handler of it    *)
(* is one action.  One command of the script is one action.                *)
(*                                                                         *)
(* part_007 closes seven of its if-blocks with a brace instead of fi       *)
(* (lines 619, 627, 679, 712, 717, 745, 746).  bash reads the if-command   *)
(* that begins at line 494 whole, reports a syntax error at line 619 and   *)
(* ends the script with status 2: part_007 does what its lines 1-491 do    *)
(* and never builds.                                                       *)
(*                                                                         *)
(* Both revisions run under set -eo pipefail, with cleanup as the handler  *)
(* of EXIT, INT and TERM.  cleanup ends in                                 *)
(*   [ -n "$CURRENT_DIR" ] && [ "$PWD" != "$CURRENT_DIR" ] && cd ...       *)
(* which changes to the directory the script was started from and, when    *)
(* the script is there already, returns 1, which under set -e becomes the  *)
(* exit status of the script.                                              *)
(***************************************************************************)
EXTENDS Integers, Sequences, FiniteSets, TLC

VARIABLES
    rev,      \* which revision of bash.sh is installed: "bash_sh" | "part_007"
    pom,      \* the project directory holds a pom.xml
    sh,       \* sh[r]: the script process of run r
    srv,      \* srv[r]: the server's closure variables of run r
    status,   \* content of build_status.json (NoStatus: no file)
    result,   \* content of build_result.json (NoResult: no file)
    jar,      \* the project's target/ holds a jar file
    hist,     \* hist[r]: what the script of run r has done so far (history)
    track,    \* the runs whose history is recorded in this specification
    lrun,     \* the run whose output is followed: route, phase, attempt
    lines,    \* lines[i]: the kind of the i-th line the script has put out
    pipe,     \* lines in the stdout pipe, not yet read by the server
    buildLog, \* content of build.log: its lines that are not empty
    activeStreams, \* activeStreams.get(p): the streams registered for plugin p
    pluginOf, \* pluginOf[c]: pluginName of the latest request of client c
    ended,    \* the clients whose stream was ended (stream.end())
    obs,      \* obs[c]: how the stream of client c takes a write
    got,      \* got[c]: what was written to the stream of client c
    since,    \* since[c]: how many lines were out when c connected (history)
    logFile,  \* who has written to build.log in this run ({}: no file)
    qrev,     \* which revision of the status route is installed
    ans,      \* the answer to the latest status query
    codec,    \* a path written into build_result.json and read back
    fixer,    \* a set of fixed files being written to disk
    parser    \* one call of parseErrors: its input so far and its result

\* The variables of the log broadcast.
logvars ==
    <<lrun, lines, pipe, buildLog, activeStreams, pluginOf, ended, obs, got,
      since>>

\* The registry of the streams and what the handlers keep of each client.
streamvars == <<activeStreams, pluginOf, ended, obs>>

\* The variables of the build.
buildvars == <<rev, pom, sh, srv, status, result, jar, hist, track, logFile>>

\* The variables of the status query.
auxvars == <<qrev, ans, codec, fixer, parser>>

vars == <<buildvars, logvars, auxvars>>

\* ------------------------------------------------------------------ bounds

\* Number of start requests (runs) of one project considered.
MaxRuns == 2

\* Number of lines the script puts out in the run whose output is followed.
MaxLines == 3

\* Number of clients of the log stream.
MaxClients == 2

\* Length of the paths written to build_result.json and read back.
MaxPath == 3

\* Number of files in the answer of the fix service.
MaxFiles == 3

\* Length of the file paths in the build output given to parseErrors.
MaxErrPath == 1

\* Number of lines of the build output given to parseErrors.
MaxErrLines == 2

Runs == 1..MaxRuns

\* ---------------------------------------------------------------- constants

\* MAX_AI_FIX_ATTEMPTS=5
MAX_AI_FIX_ATTEMPTS == 5

\* const maxBuildAttempts = 3
maxBuildAttempts == 3

Revs == {"bash_sh", "part_007"}

\* ------------------------------------------------------------------ script

\* A script process that was never spawned.
\*   home: PWD is the directory the script was started from (CURRENT_DIR);
\*   found: JAR_FILE is not empty.
NoScript ==
    [pc |-> "none", verbose |-> FALSE, attempts |-> 0, buildSuccess |-> FALSE,
     found |-> FALSE, home |-> FALSE, code |-> 0]

\* The process right after spawn: AI_FIX_ATTEMPTS unset, nothing run yet.
Spawned(v) == [NoScript EXCEPT !.pc = "start", !.verbose = v, !.home = TRUE]

\* The exit status of a script that ends with status n.  The EXIT trap runs
\* cleanup, whose last list fails when PWD is CURRENT_DIR; set -e then ends
\* the script with status 1.
ExitStatus(s, n) == IF s.home THEN 1 ELSE n

\* exit N, the end of the script, or a failing command under set -e.
Exit(s, n) == [s EXCEPT !.pc = "exited", !.code = ExitStatus(s, n)]

\* The content of build_result.json.  jarPath: the record names a jar;
\* fixes: the "fixes" field (0 when absent); errorReport: the record names
\* an error report; by: who wrote it.
\* build_result.json does not exist.
NoResult ==
    [success |-> FALSE, jarPath |-> FALSE, fixes |-> 0, noShade |-> FALSE,
     errorReport |-> FALSE, by |-> "none"]

\* Faulty variant: the success record does not count the fix attempts.
ResSuccessUncounted(fixes) ==
    [success |-> TRUE, jarPath |-> TRUE, fixes |-> 0, noShade |-> FALSE,
     errorReport |-> FALSE, by |-> "script"]

\* The records the script writes to build_result.json.
ResSuccess(fixes) ==
    [success |-> TRUE, jarPath |-> TRUE, fixes |-> fixes, noShade |-> FALSE,
     errorReport |-> FALSE, by |-> "script"]

\* Faulty variant: the no-shade success is written like any other.
ResNoShadePlain == ResSuccess(0)

ResNoShade ==
    [success |-> TRUE, jarPath |-> TRUE, fixes |-> 0, noShade |-> TRUE,
     errorReport |-> FALSE, by |-> "script"]

ResFailure(hasJar) ==
    [success |-> FALSE, jarPath |-> hasJar, fixes |-> 0, noShade |-> FALSE,
     errorReport |-> FALSE, by |-> "script"]

\* The record written when the no-shade build failed as well.  part_007
\* writes error-report.md first and names it in the record ("errorReport");
\* src/bash.sh writes no report and no such field.
ResAllFailed == [ResFailure(FALSE) EXCEPT !.errorReport = (rev = "part_007")]

\* History of one script process: the builds it ran, by mode, the fix
\* requests it sent, whether the latest fix response held no file, the
\* latest verdict of verify_jar, and the record it last wrote to
\* build_result.json.
NoHist ==
    [firstOk |-> FALSE, compiles |-> 0, fixReqs |-> 0, zeroTail |-> FALSE,
     inLoopBuilds |-> 0, noShade |-> 0, verified |-> FALSE, res |-> NoResult]

\* hist with the entry of run r replaced, where its history is recorded.
Record(r, h) == IF r \in track THEN [hist EXCEPT ![r] = h] ELSE hist

\* What mvn can return, TRUE for status 0.  Run from CURRENT_DIR, the
\* server's working directory, it finds no pom.xml and fails.
MvnResults(s) == IF s.home THEN {FALSE} ELSE BOOLEAN

\* The project's target/ after a build: rm -rf target/ and mvn clean act
\* on the directory the script is in.
JarAfter(s, ok) == IF s.home THEN {jar} ELSE IF ok THEN BOOLEAN ELSE {FALSE}

\* find target -name "*.jar": target is looked up in the directory the
\* script is in.
JarFound(s) == ~s.home /\ jar

\* The verdicts verify_jar can give; it is called only when find_jar_file
\* found a jar.
Verdicts(found) == IF found THEN BOOLEAN ELSE {FALSE}

\* while [ $AI_FIX_ATTEMPTS -lt $MAX_AI_FIX_ATTEMPTS ] && [ "$BUILD_SUCCESS" = false ]
LoopCond(s) == s.attempts < MAX_AI_FIX_ATTEMPTS /\ ~s.buildSuccess

\* Log file set-up, directory and pom.xml checks, cd "$PLUGIN_DIR".  Without
\* a pom.xml the script exits 1; part_007 first writes a failure result.
\* With one, src/bash.sh goes on to its first build; part_007 ends at its
\* if-command, which does not parse, with status 2.
ScriptStart(r) ==
    /\ sh[r].pc = "start"
    /\ IF ~pom
         THEN /\ sh' = [sh EXCEPT ![r] = Exit(@, 1)]
              /\ result' = IF rev = "part_007" THEN ResFailure(FALSE) ELSE result
              /\ hist' = Record(r, [hist[r] EXCEPT !.res = IF rev = "part_007"
                                                           THEN ResFailure(FALSE)
                                                           ELSE @])
         ELSE /\ sh' = [sh EXCEPT ![r] =
                          IF rev = "part_007" THEN Exit([@ EXCEPT !.home = FALSE], 2)
                          ELSE [@ EXCEPT !.pc = "build1", !.home = FALSE]]
              /\ UNCHANGED <<result, hist>>
    /\ logFile' = IF srv[r].route \in {"build", "autofix"}
                    THEN logFile \cup {"script"} ELSE {"script"}
    /\ UNCHANGED <<auxvars, logvars, rev, pom, srv, status, jar, track>>

\* if build_plugin "normal": rm -rf target/, then mvn clean package.
Build1(r) ==
    /\ sh[r].pc = "build1"
    /\ \E ok \in MvnResults(sh[r]) :
         /\ jar' \in JarAfter(sh[r], ok)
         /\ IF ok
              THEN /\ sh' = [sh EXCEPT ![r].pc = "find1"]
                   /\ hist' = Record(r, [hist[r] EXCEPT !.firstOk = TRUE])
              ELSE /\ sh' = [sh EXCEPT ![r].pc = "loop"]
                   /\ UNCHANGED hist
    /\ UNCHANGED <<auxvars, logFile, logvars, rev, pom, srv, status, result, track>>

\* JAR_FILE=$(find_jar_file) after the first build.
Find1(r) ==
    /\ sh[r].pc = "find1"
    /\ sh' = [sh EXCEPT ![r].pc = "verify1", ![r].found = JarFound(sh[r])]
    /\ UNCHANGED <<auxvars, logFile, logvars, rev, pom, srv, status, result, jar, hist, track>>

\* Faulty variant: the verdict of verify_jar is ignored.
ArtifactFound(found, verified) == found

\* Whether a build's artifact counts: find_jar_file found a jar and
\* verify_jar accepted it.
ArtifactGood(found, verified) == found /\ verified

\* First build succeeded: verify_jar, result record, exit.
Verify1(r) ==
    /\ sh[r].pc = "verify1"
    /\ \E verified \in Verdicts(sh[r].found) :
         /\ IF ArtifactGood(sh[r].found, verified)
              THEN /\ result' = ResSuccess(0)
                   /\ sh' = [sh EXCEPT ![r] = Exit(@, 0)]
              ELSE /\ result' = ResFailure(sh[r].found)
                   /\ sh' = [sh EXCEPT ![r] = Exit(@, 1)]
         /\ hist' = Record(r, [hist[r] EXCEPT !.res = result',
                                              !.verified = verified])
    /\ UNCHANGED <<auxvars, logFile, logvars, rev, pom, srv, status, jar, track>>

\* One more iteration is begun: AI_FIX_ATTEMPTS=$((AI_FIX_ATTEMPTS + 1)).
\* Otherwise the loop is left: to the no-shade fallback when no build
\* succeeded, else to cd "$CURRENT_DIR" and the end of the script.
LoopHead(r) ==
    /\ sh[r].pc = "loop"
    /\ sh' = [sh EXCEPT ![r] =
                IF LoopCond(@) THEN [@ EXCEPT !.pc = "compile", !.attempts = @ + 1]
                ELSE IF ~@.buildSuccess THEN [@ EXCEPT !.pc = "fallback"]
                ELSE Exit([@ EXCEPT !.home = TRUE], 0)]
    /\ UNCHANGED <<auxvars, logFile, logvars, rev, pom, srv, status, result, jar, hist, track>>

\* Whether the script survives the capture of the build errors.
\* BUILD_ERRORS=$(build_plugin "compile-only") is a simple command under
\* set -e: a failing compile ends the script.
CompileSurvives(ok) == ok

\* BUILD_ERRORS=$(build_plugin "compile-only"); analyze_build_errors.
Compile(r) ==
    /\ sh[r].pc = "compile"
    /\ \E ok \in MvnResults(sh[r]) :
         /\ jar' \in JarAfter(sh[r], FALSE)
         /\ sh' = [sh EXCEPT ![r] =
                     IF CompileSurvives(ok) THEN [@ EXCEPT !.pc = "fix"]
                     ELSE Exit(@, 1)]
    /\ hist' = Record(r, [hist[r] EXCEPT !.compiles = @ + 1])
    /\ UNCHANGED <<auxvars, logFile, logvars, rev, pom, srv, status, result, track>>

\* What the fix request can come back with: curl failed or timed out, an
\* empty body, a body that is no JSON object, status other than "success",
\* success with no file, success with files.
FixOutcomes == {"curlfail", "empty", "malformed", "error", "zero", "patches"}

\* Where the iteration goes after the fix request.
\*   "exit": the script ends (wait $CURL_PID, or ERROR_MSG=$(... | jq ...),
\*           fails under set -e);
\*   "loop": continue, the next iteration;
\*   "rebuild": the returned files, if any, are written and the normal
\*           build retried.
AfterFix(verbose, out) ==
    CASE out = "curlfail"  -> IF verbose THEN "exit" ELSE "loop"
      [] out = "empty"     -> "loop"
      [] out = "malformed" -> "exit"
      [] out = "error"     -> "loop"
      [] OTHER             -> "rebuild"

\* Exit status of the script when the fix request ends it: curl's (7,
\* could not connect) or jq's (2, invalid input).
FixExitCode(out) == IF out = "curlfail" THEN 7 ELSE 2

\* curl to /api/fix, validation of the response, the fixed files written.
FixRequest(r) ==
    /\ sh[r].pc = "fix"
    /\ \E out \in FixOutcomes :
         LET to == AfterFix(sh[r].verbose, out)
         IN  /\ sh' = [sh EXCEPT ![r] =
                         IF to = "exit" THEN Exit(@, FixExitCode(out))
                         ELSE [@ EXCEPT !.pc = to]]
             /\ hist' = Record(r, [hist[r] EXCEPT !.fixReqs = @ + 1,
                                                  !.zeroTail = (out = "zero")])
    /\ UNCHANGED <<auxvars, logFile, logvars, rev, pom, srv, status, result, jar, track>>

\* if build_plugin "normal" inside the loop.
Rebuild(r) ==
    /\ sh[r].pc = "rebuild"
    /\ \E ok \in MvnResults(sh[r]) :
         /\ jar' \in JarAfter(sh[r], ok)
         /\ sh' = [sh EXCEPT ![r].pc = IF ok THEN "findL" ELSE "loop"]
    /\ hist' = Record(r, [hist[r] EXCEPT !.inLoopBuilds = @ + 1])
    /\ UNCHANGED <<auxvars, logFile, logvars, rev, pom, srv, status, result, track>>

\* JAR_FILE=$(find_jar_file) after the loop's build.
FindLoop(r) ==
    /\ sh[r].pc = "findL"
    /\ sh' = [sh EXCEPT ![r].pc = "verifyL", ![r].found = JarFound(sh[r])]
    /\ UNCHANGED <<auxvars, logFile, logvars, rev, pom, srv, status, result, jar, hist, track>>

\* The loop's build succeeded: verify_jar; a verified jar writes the
\* result, sets BUILD_SUCCESS and breaks, anything else goes on with the
\* loop.
VerifyLoop(r) ==
    /\ sh[r].pc = "verifyL"
    /\ \E verified \in Verdicts(sh[r].found) :
         IF ArtifactGood(sh[r].found, verified)
           THEN /\ result' = ResSuccess(sh[r].attempts)
                /\ sh' = [sh EXCEPT ![r].pc = "loop", ![r].buildSuccess = TRUE]
                /\ hist' = Record(r, [hist[r] EXCEPT !.res = result',
                                                     !.verified = verified])
           ELSE /\ sh' = [sh EXCEPT ![r].pc = "loop"]
                /\ hist' = Record(r, [hist[r] EXCEPT !.verified = verified])
                /\ UNCHANGED result
    /\ UNCHANGED <<auxvars, logFile, logvars, rev, pom, srv, status, jar, track>>

\* if build_plugin "no-shade"; a failure writes the failure result and
\* exits 1.
Fallback(r) ==
    /\ sh[r].pc = "fallback"
    /\ \E ok \in MvnResults(sh[r]) :
         /\ jar' \in JarAfter(sh[r], ok)
         /\ IF ok
              THEN /\ sh' = [sh EXCEPT ![r].pc = "findF"]
                   /\ hist' = Record(r, [hist[r] EXCEPT !.noShade = @ + 1])
                   /\ UNCHANGED result
              ELSE /\ result' = ResAllFailed
                   /\ sh' = [sh EXCEPT ![r] = Exit(@, 1)]
                   /\ hist' = Record(r, [hist[r] EXCEPT !.noShade = @ + 1,
                                                        !.res = result'])
    /\ UNCHANGED <<auxvars, logFile, logvars, rev, pom, srv, status, track>>

\* find_command "find" "JAR_FILE=$(find target -name "*.jar" | head -n 1)",
\* a simple command under set -e and pipefail: where there is no target/,
\* find fails and the script ends.
FindFallback(r) ==
    /\ sh[r].pc = "findF"
    /\ sh' = [sh EXCEPT ![r] =
                IF @.home THEN Exit(@, 1)
                ELSE [@ EXCEPT !.pc = "verifyF", !.found = JarFound(sh[r])]]
    /\ UNCHANGED <<auxvars, logFile, logvars, rev, pom, srv, status, result, jar, hist, track>>

\* The no-shade build succeeded: verify_jar, result record.  There is no
\* exit in this branch: the script runs on to cd "$CURRENT_DIR" and to its
\* end.
VerifyFallback(r) ==
    /\ sh[r].pc = "verifyF"
    /\ \E verified \in Verdicts(sh[r].found) :
         /\ result' = IF ArtifactGood(sh[r].found, verified) THEN ResNoShade
                      ELSE ResFailure(sh[r].found)
         /\ sh' = [sh EXCEPT ![r] = Exit([@ EXCEPT !.home = TRUE], 0)]
         /\ hist' = Record(r, [hist[r] EXCEPT !.res = result',
                                              !.verified = verified])
    /\ UNCHANGED <<auxvars, logFile, logvars, rev, pom, srv, status, jar, track>>

\* One command of the script of run r.
ScriptStep(r) ==
    \/ ScriptStart(r)
    \/ Build1(r)
    \/ Find1(r)
    \/ Verify1(r)
    \/ LoopHead(r)
    \/ Compile(r)
    \/ FixRequest(r)
    \/ Rebuild(r)
    \/ FindLoop(r)
    \/ VerifyLoop(r)
    \/ Fallback(r)
    \/ FindFallback(r)
    \/ VerifyFallback(r)

\* ------------------------------------------------------------------ server

\* The closure variables of a start request that was not made yet.
\*   route: which handler took the request; phase: where the run is;
\*   resp: the HTTP status answered; timer: the kill timer is pending;
\*   buildAttempts, autoFix: of the auto-fix
\*   route; wrote: the state this run last wrote to build_status.json.
NoRun ==
    [route |-> "none", phase |-> "idle", resp |-> 0, timer |-> FALSE,
     buildAttempts |-> 0, autoFix |-> FALSE, wrote |-> "none"]

\* build_status.json does not exist.
NoStatus == [state |-> "none", error |-> "none"]

\* The records written to build_status.json.
StInProgress == [state |-> "in_progress", error |-> "none"]

\* Faulty variant: the timer kills the process and leaves the status alone.
StTimeoutSilent == StInProgress

StTimeout    == [state |-> "failed", error |-> "timeout"]
StCompleted  == [state |-> "completed", error |-> "none"]
StFailedExit == [state |-> "failed", error |-> "exit"]
StFailedSpawn == [state |-> "failed", error |-> "spawn"]

\* The minimal records the server writes to build_result.json.
SrvSuccess(hasJar) ==
    [success |-> TRUE, jarPath |-> hasJar, fixes |-> 0, noShade |-> FALSE,
     errorReport |-> FALSE, by |-> "server"]

SrvFailure ==
    [success |-> FALSE, jarPath |-> FALSE, fixes |-> 0, noShade |-> FALSE,
     errorReport |-> FALSE, by |-> "server"]

\* The process object after its 'close' event was handled: only the exit
\* code is left of it.
Closed(s) == [NoScript EXCEPT !.pc = "closed", !.code = s.code]

\* spawn('bash', [bash.sh, pluginDir, token, host, '--verbose']): the
\* script starts, or the spawn fails and 'error' is emitted.
SpawnResults == {Spawned(TRUE), [NoScript EXCEPT !.pc = "spawnerr"]}

\* The script started from a shell: bash.sh <dir> <token> [host] [--verbose].
StartCli(r) ==
    /\ srv[r].route = "none"
    /\ \E v \in BOOLEAN : sh' = [sh EXCEPT ![r] = Spawned(v)]
    /\ srv' = [srv EXCEPT ![r].route = "cli", ![r].phase = "running"]
    /\ UNCHANGED <<auxvars, logFile, logvars, rev, pom, status, result, jar, hist, track>>

\* Faulty variant: POST /api/build without the check for pom.xml.
StartBuildUnchecked(r) ==
    /\ srv[r].route = "none"
    /\ status' = StInProgress
    /\ logFile' = {"server"}
    /\ \E p \in SpawnResults : sh' = [sh EXCEPT ![r] = p]
    /\ srv' = [srv EXCEPT ![r] =
                 [@ EXCEPT !.route = "build", !.phase = "running",
                           !.resp = 200, !.timer = TRUE,
                           !.wrote = "in_progress"]]
    /\ UNCHANGED <<auxvars, logvars, rev, pom, result, jar, hist, track>>

\* POST /api/build: validation, status in_progress, the answer, the spawn,
\* the handlers and the 15 minute timer.  Nothing looks at a build that is
\* already running.
StartBuild(r) ==
    /\ srv[r].route = "none"
    /\ IF ~pom
         THEN /\ srv' = [srv EXCEPT ![r] =
                           [@ EXCEPT !.route = "build", !.phase = "done", !.resp = 400]]
              /\ UNCHANGED <<sh, status, logFile>>
         ELSE /\ status' = StInProgress
              /\ logFile' = {"server"}
              /\ \E p \in SpawnResults : sh' = [sh EXCEPT ![r] = p]
              /\ srv' = [srv EXCEPT ![r] =
                           [@ EXCEPT !.route = "build", !.phase = "running",
                                     !.resp = 200, !.timer = TRUE,
                                     !.wrote = "in_progress"]]
    /\ UNCHANGED <<auxvars, logvars, rev, pom, result, jar, hist, track>>

\* The script process is running.
Alive(s) == s.pc \notin {"none", "spawnerr", "exited", "closed"}

\* What buildProcess.kill() (SIGTERM) does to the script.  A process that
\* has ended gets no signal.  The script traps TERM with cleanup, which
\* does not exit: the handler runs after the current command, takes the
\* script from the project directory to CURRENT_DIR, and the script goes
\* on from there.  Where the script is in CURRENT_DIR already (before its
\* cd "$PLUGIN_DIR"), cleanup returns 1 and set -e ends the script.  The
\* wait builtin (wait $CURL_PID, verbose mode) returns at once with status
\* 143, which set -e makes the script's exit; pc "fix" covers the commands
\* before the wait as well, so both outcomes are possible there.
AfterKill(s) ==
    IF ~Alive(s) THEN {s}
    ELSE IF s.home THEN {Exit(s, 1)}
    ELSE LET t == [s EXCEPT !.home = TRUE]
         IN  IF s.pc = "fix" /\ s.verbose THEN {t, Exit(t, 143)} ELSE {t}

\* The kill timer fires (15 minutes in build.ts, 10 in the auto-fix route):
\* kill, and status failed with the time-out error.  buildProcess.killed is
\* false whenever the timer fires, kill being called nowhere else.
OnTimeout(r) ==
    /\ srv[r].timer
    /\ \E s \in AfterKill(sh[r]) : sh' = [sh EXCEPT ![r] = s]
    /\ status' = StTimeout
    /\ srv' = [srv EXCEPT ![r].timer = FALSE, ![r].wrote = "failed"]
    /\ UNCHANGED <<auxvars, logFile, logvars, rev, pom, result, jar, hist, track>>

\* The status record the close handler writes for an exit code.
CloseStatus(code) == IF code = 0 THEN StCompleted ELSE StFailedExit

\* The result record after the close handler: a minimal one is written only
\* when build_result.json does not exist.
CloseResult(code) ==
    IF result # NoResult THEN result
    ELSE IF code = 0 THEN SrvSuccess(jar) ELSE SrvFailure

\* build.ts, buildProcess.on('close'): timer cleared, minimal result when
\* none exists, status completed (code 0) or failed.
OnClose(r) ==
    /\ srv[r].route = "build"
    /\ srv[r].phase = "running"
    /\ sh[r].pc = "exited"
    /\ result' = CloseResult(sh[r].code)
    /\ status' = CloseStatus(sh[r].code)
    /\ srv' = [srv EXCEPT ![r].timer = FALSE, ![r].phase = "done",
                          ![r].wrote = CloseStatus(sh[r].code).state]
    /\ sh' = [sh EXCEPT ![r] = Closed(@)]
    /\ UNCHANGED <<auxvars, logFile, logvars, rev, pom, jar, hist, track>>

\* build.ts, buildProcess.on('error'): timer cleared, status failed, a
\* failure result written over whatever is there.  'close' follows with a
\* negative code.
OnError(r) ==
    /\ srv[r].route = "build"
    /\ srv[r].phase = "running"
    /\ sh[r].pc = "spawnerr"
    /\ status' = StFailedSpawn
    /\ result' = SrvFailure
    /\ srv' = [srv EXCEPT ![r].timer = FALSE, ![r].wrote = "failed"]
    /\ sh' = [sh EXCEPT ![r] = Exit(@, -2)]
    /\ UNCHANGED <<auxvars, logFile, logvars, rev, pom, jar, hist, track>>

\* ------------------------------------------- auto-fix build route (buildLogs.ts)

\* executeBuild: buildAttempts++, spawn, timer.
ExecuteBuild(sv) ==
    [sv EXCEPT !.buildAttempts = @ + 1, !.phase = "running", !.timer = TRUE]

\* The while loop after executeBuild resolved without success: another
\* executeBuild while buildAttempts < maxBuildAttempts.
LoopAgain(sv) == sv.buildAttempts < maxBuildAttempts

\* The continuation of the loop after a failed attempt, on closure sv.
Continue(r, sv) ==
    IF LoopAgain(sv)
      THEN /\ srv' = [srv EXCEPT ![r] = ExecuteBuild(sv)]
           /\ \E p \in SpawnResults : sh' = [sh EXCEPT ![r] = p]
      ELSE /\ srv' = [srv EXCEPT ![r] = [sv EXCEPT !.phase = "done"]]
           /\ sh' = [sh EXCEPT ![r] = Closed(@)]

\* createFailureResult: minimal failure result when none exists, status
\* failed.
CreateFailureResult ==
    /\ result' = (IF result = NoResult THEN SrvFailure ELSE result)
    /\ status' = StFailedExit

\* POST of the auto-fix route: validation, status in_progress, the answer,
\* then the first executeBuild.
StartAutofix(r) ==
    /\ srv[r].route = "none"
    /\ IF ~pom
         THEN /\ srv' = [srv EXCEPT ![r] =
                           [@ EXCEPT !.route = "autofix", !.phase = "done",
                                     !.resp = 400]]
              /\ UNCHANGED <<sh, status, logFile>>
         ELSE /\ status' = StInProgress
              /\ logFile' = {"server"}
              /\ \E p \in SpawnResults : sh' = [sh EXCEPT ![r] = p]
              /\ \E af \in BOOLEAN :
                   srv' = [srv EXCEPT ![r] =
                             ExecuteBuild([@ EXCEPT !.route = "autofix", !.resp = 200,
                                                    !.autoFix = af,
                                                    !.wrote = "in_progress"])]
    /\ UNCHANGED <<auxvars, logvars, rev, pom, result, jar, hist, track>>

\* Whether the close handler of a failed attempt calls attemptFix.
\* hadErr: lastBuildErrors is not empty.
WantsFix(sv, hadErr) ==
    sv.autoFix /\ sv.buildAttempts < maxBuildAttempts /\ hadErr

\* Auto-fix route, buildProcess.on('close').
OnCloseAutofix(r) ==
    /\ srv[r].route = "autofix"
    /\ srv[r].phase = "running"
    /\ sh[r].pc = "exited"
    /\ LET sv == [srv[r] EXCEPT !.timer = FALSE]
       IN  IF sh[r].code = 0
             THEN /\ result' = CloseResult(0)
                  /\ status' = StCompleted
                  /\ srv' = [srv EXCEPT ![r] =
                               [sv EXCEPT !.phase = "done", !.wrote = "completed"]]
                  /\ sh' = [sh EXCEPT ![r] = Closed(@)]
             ELSE \E hadErr \in BOOLEAN :
                    IF WantsFix(sv, hadErr)
                      THEN /\ srv' = [srv EXCEPT ![r] = [sv EXCEPT !.phase = "fixing"]]
                           /\ sh' = [sh EXCEPT ![r] = Closed(@)]
                           /\ UNCHANGED <<result, status>>
                      ELSE /\ CreateFailureResult
                           /\ Continue(r, [sv EXCEPT !.wrote = "failed"])
    /\ UNCHANGED <<auxvars, logFile, logvars, rev, pom, jar, hist, track>>

\* attemptFix came back (POST /api/fix answered or failed): on true the
\* attempt resolves without any status write, on false after
\* createFailureResult; the loop then goes on.
AttemptFixDone(r) ==
    /\ srv[r].route = "autofix"
    /\ srv[r].phase = "fixing"
    /\ \E fixResult \in BOOLEAN :
         IF fixResult
           THEN /\ Continue(r, srv[r])
                /\ UNCHANGED <<result, status>>
           ELSE /\ CreateFailureResult
                /\ Continue(r, [srv[r] EXCEPT !.wrote = "failed"])
    /\ UNCHANGED <<auxvars, logFile, logvars, rev, pom, jar, hist, track>>

\* Auto-fix route, buildProcess.on('error') and the 'close' that follows it
\* (lastBuildErrors is empty then): status failed, failure result written
\* over whatever is there, and the loop goes on.
OnErrorAutofix(r) ==
    /\ srv[r].route = "autofix"
    /\ srv[r].phase = "running"
    /\ sh[r].pc = "spawnerr"
    /\ status' = StFailedExit
    /\ result' = SrvFailure
    /\ Continue(r, [srv[r] EXCEPT !.timer = FALSE, !.wrote = "failed"])
    /\ UNCHANGED <<auxvars, logFile, logvars, rev, pom, jar, hist, track>>

\* --------------------------------------------- create route (buildQueue.ts)

\* The create route, after writing the generated files: buildPlugin spawns
\* the script; no status record, no timer, no look at a running build.
StartCreate(r) ==
    /\ srv[r].route = "none"
    /\ sh' = [sh EXCEPT ![r] = Spawned(TRUE)]
    /\ srv' = [srv EXCEPT ![r] = [@ EXCEPT !.route = "create", !.phase = "running",
                                           !.resp = 200]]
    /\ UNCHANGED <<auxvars, logFile, logvars, rev, pom, status, result, jar, hist, track>>

\* buildPlugin, buildProcess.on('close'): the promise settles; nothing is
\* written.
OnCloseCreate(r) ==
    /\ srv[r].route = "create"
    /\ srv[r].phase = "running"
    /\ sh[r].pc = "exited"
    /\ srv' = [srv EXCEPT ![r].phase = "done"]
    /\ sh' = [sh EXCEPT ![r] = Closed(@)]
    /\ UNCHANGED <<auxvars, logFile, logvars, rev, pom, status, result, jar, hist, track>>

\* ------------------------------ status query (buildStatus.ts, part_003)

\* The revisions of GET /api/build-status/:pluginName: the route app.ts
\* mounts, src/src/routes/buildStatus.ts, and src/unnamed/part_003.
QRevs == {"buildStatus_ts", "part_003"}

\* What a read of build_result.json gets while a script is between
\* opening the file for its redirection (which truncates it) and writing
\* the record: an empty file.
Torn ==
    [success |-> FALSE, jarPath |-> FALSE, fixes |-> 0, noShade |-> FALSE,
     errorReport |-> FALSE, by |-> "torn"]

\* The record part_003 writes when it finds a jar and no build_result.json.
QuerySuccess ==
    [success |-> TRUE, jarPath |-> TRUE, fixes |-> 0, noShade |-> FALSE,
     errorReport |-> FALSE, by |-> "query"]

\* The script is at a command that may write build_result.json:
\* echo "{...}" > "$PLUGIN_DIR/build_result.json".
MayWriteResult(s) ==
    \/ s.pc \in {"verify1", "verifyF", "fallback"}
    \/ s.pc = "verifyL" /\ s.found
    \/ s.pc = "start" /\ rev = "part_007" /\ ~pom

\* What fs.readFileSync(buildResultPath) can get.  The script is another
\* process and its write is not atomic: a read that falls into it gets an
\* empty file.  (The server's own writeFileSync cannot overlap the read,
\* both run on the one thread of node.)
ReadResults ==
    (IF result # NoResult THEN {result} ELSE {})
        \cup (IF \E r \in Runs : MayWriteResult(sh[r]) THEN {Torn} ELSE {})

\* No query answered yet.
NoAnswer ==
    [code |-> 0, buildComplete |-> FALSE, message |-> "none",
     buildResult |-> NoResult]

\* res.status(200).json({success: true, buildComplete: true, buildResult})
Complete(res) ==
    [code |-> 200, buildComplete |-> TRUE, message |-> "none", buildResult |-> res]

\* res.status(200).json({success: true, buildComplete: false, message})
Pending(msg) ==
    [code |-> 200, buildComplete |-> FALSE, message |-> msg,
     buildResult |-> NoResult]

\* res.status(500): JSON.parse threw.
ParseError ==
    [code |-> 500, buildComplete |-> FALSE, message |-> "error",
     buildResult |-> NoResult]

\* The answer to a read of build_result.json that got content c.
AnswerRead(c) == IF c = Torn THEN ParseError ELSE Complete(c)

\* The answers without a build_result.json.  buildStatus.ts: "Build in
\* progress" when there is a build.log, else "Build not started".  part_003
\* looks for a jar in target/ first and answers with a result of its own
\* making; with a build.log it answers "Build in progress" when the log is
\* younger than five minutes, else that the build may be stuck.
AnswerNoResult ==
    IF qrev = "part_003" /\ jar THEN {Complete(QuerySuccess)}
    ELSE IF logFile = {} THEN {Pending("not_started")}
    ELSE IF qrev = "part_003" THEN {Pending("in_progress"), Pending("stuck")}
    ELSE {Pending("in_progress")}

\* The answers a status query can get in this state.
Answers ==
    {AnswerRead(c) : c \in ReadResults}
        \cup (IF result = NoResult THEN AnswerNoResult ELSE {})

\* GET /api/build-status/:pluginName.  part_003 writes the result it made
\* up to build_result.json.
GetStatus ==
    /\ \E a \in Answers :
         /\ ans' = a
         /\ result' = IF a.buildResult = QuerySuccess THEN QuerySuccess ELSE result
    /\ UNCHANGED <<logvars, qrev, codec, fixer, parser, rev, pom, sh, srv, status, jar,
                   hist, track, logFile>>

\* ------------------------- build_result.json as text (bash.sh, build.ts)

\* The characters of a path: a plain one, a double quote, a backslash.
Chars == {"a", "q", "b"}

\* The paths of up to MaxPath characters.
Paths == UNION {[1..n -> Chars] : n \in 0..MaxPath}

\* Who writes build_result.json: the script, with
\* echo "{...\"jarPath\":\"$JAR_FILE\",\"buildLog\":\"$LOG_FILE\"}", and the
\* server, with JSON.stringify.
Writers == {"script", "server"}

\* JSON.stringify of the characters of a string: a quote and a backslash
\* get a backslash in front.
RECURSIVE Escape(_)
Escape(v) ==
    IF v = <<>> THEN <<>>
    ELSE (IF Head(v) \in {"q", "b"} THEN <<"b", Head(v)>> ELSE <<Head(v)>>)
             \o Escape(Tail(v))

\* The string literal a writer puts into the file for path v: the script
\* puts the characters between two quotes as they are.
Encode(w, v) ==
    <<"q">> \o (IF w = "server" THEN Escape(v) ELSE v) \o <<"q">>

\* JSON.parse threw.
NoParse == [ok |-> FALSE, val |-> <<>>]

\* JSON.parse from the character after the opening quote; acc is the
\* string read so far.  A quote ends the string and nothing but the rest
\* of the record may follow it; a backslash must be followed by a quote or
\* a backslash (of the escapes of JSON, the ones Chars can spell).
RECURSIVE ParseFrom(_, _)
ParseFrom(t, acc) ==
    IF t = <<>> THEN NoParse
    ELSE IF Head(t) = "q"
           THEN IF Tail(t) = <<>> THEN [ok |-> TRUE, val |-> acc] ELSE NoParse
    ELSE IF Head(t) = "b"
           THEN IF Len(t) >= 2 /\ t[2] \in {"q", "b"}
                  THEN ParseFrom(Tail(Tail(t)), Append(acc, t[2]))
                  ELSE NoParse
    ELSE ParseFrom(Tail(t), Append(acc, Head(t)))

\* JSON.parse(fs.readFileSync(buildResultPath, 'utf8')), for the string
\* literal of the path.
Parse(t) ==
    IF t = <<>> \/ Head(t) # "q" THEN NoParse ELSE ParseFrom(Tail(t), <<>>)

\* Nothing written.
NoCodec == [pc |-> "idle", writer |-> "none", val |-> <<>>, text |-> <<>>,
            back |-> NoParse]

\* A result record that names path v is written to build_result.json.
WriteResult ==
    /\ codec.pc = "idle"
    /\ \E w \in Writers, v \in Paths :
         codec' = [pc |-> "written", writer |-> w, val |-> v,
                   text |-> Encode(w, v), back |-> NoParse]
    /\ UNCHANGED <<buildvars, logvars, qrev, ans, fixer, parser>>

\* The status query reads the file and parses it.
ReadBack ==
    /\ codec.pc = "written"
    /\ codec' = [codec EXCEPT !.pc = "read", !.back = Parse(codec.text)]
    /\ UNCHANGED <<buildvars, logvars, qrev, ans, fixer, parser>>

\* ------------------------------ fixed files to disk (bash.sh, part_000)

\* Kinds of file path in the answer of the fix service: a path inside the
\* project, a path with "..", an absolute path.
PathKinds == {"inside", "dotdot", "absolute"}

\* The answers of up to MaxFiles files.
FileSets == UNION {[1..n -> PathKinds] : n \in 0..MaxFiles}

\* Who writes the fixed files: the loop of src/bash.sh and writeFixedFiles
\* of the fix route (part_000).
Appliers == {"bash_sh", "writeFixedFiles"}

\* Whether the applier goes on to write the file at a path of this kind.
\* Neither applier looks at the path: bash.sh runs mkdir -p and the
\* redirection on $FILE_PATH, writeFixedFiles writes to
\* path.resolve(pluginDir, filename).
Accepts(by, kind) == TRUE

\* Whether a write can succeed: a path outside the project may be one the
\* process cannot write to.
WriteOutcomes(kind) == IF kind = "inside" THEN {TRUE} ELSE BOOLEAN

\* The words a file path can be made of, and the file paths: one word, or
\* two with a blank between them ("src/My Plugin.java").
Words == {"A", "B"}

FilePaths == UNION {[1..n -> Words] : n \in 1..2}

\* The keys of an answer of n files: n different paths (the keys of a JSON
\* object).
KeysOf(n) ==
    {ks \in [1..n -> FilePaths] : \A i, j \in 1..n : i # j => ks[i] # ks[j]}

\* What is in a project file: what was there before the fix, the fixed
\* content of the answer, or the text null.
Contents == {"old", "fixed", "null"}

\* Nothing to write.  keys[i]: the path of file i of the answer, of kind
\* fixedFiles[i]; short: the build errors name a file the answer does not
\* hold; disk: the files of the project, by path.
NoFixer == [pc |-> "idle", by |-> "none", fixedFiles |-> <<>>, i |-> 0,
            written |-> {}, keys |-> <<>>, short |-> FALSE,
            disk |-> [p \in FilePaths |-> "old"]]

\* The values FILE_PATH takes for one key.  bash.sh runs
\* for FILE_PATH in $(echo "$FIXED_FILES" | jq -r 'keys[]'): the output of
\* jq is split at every blank, so a key of two words gives two values.
\* writeFixedFiles takes the entries of the object as they are.
WordsOf(by, key) ==
    IF by = "bash_sh" THEN [j \in 1..Len(key) |-> <<key[j]>>] ELSE <<key>>

\* Where value j of key i leads: the first value begins as the key does
\* ("..", "/"), a later one is a plain relative path.
KindOf(f, i, j) == IF j = 1 THEN f.fixedFiles[i] ELSE "inside"

\* What is written to the file: jq -r --arg path "$FILE_PATH" '.[$path]'
\* prints the content of that key, and null where the answer has no such
\* key; writeFixedFiles writes the content of the entry.
ContentOf(f, by, w) ==
    IF by = "bash_sh"
         /\ ~\E k \in DOMAIN f.keys : f.keys[k] = w /\ f.fixedFiles[k] = "inside"
      THEN "null"
      ELSE "fixed"

\* The project files after the writes for key i of the answer.
DiskAfter(f, i) ==
    LET ws == WordsOf(f.by, f.keys[i])
    IN  [p \in FilePaths |->
            IF \E j \in DOMAIN ws : ws[j] = p /\ KindOf(f, i, j) = "inside"
              THEN ContentOf(f, f.by, p)
              ELSE f.disk[p]]

\* The answer of the fix service arrives at an applier.
StartApply ==
    /\ fixer.pc = "idle"
    /\ \E by \in Appliers, f \in FileSets, short \in BOOLEAN :
         \E ks \in KeysOf(Len(f)) :
           fixer' = [pc |-> IF f = <<>> THEN "done" ELSE "writing", by |-> by,
                     fixedFiles |-> f, i |-> 1, written |-> {}, keys |-> ks,
                     short |-> short, disk |-> [p \in FilePaths |-> "old"]]
    /\ UNCHANGED <<buildvars, logvars, qrev, ans, codec, parser>>

\* One iteration of the loop over the files.  A write that fails ends the
\* loop: set -e ends the script, the catch of writeFixedFiles returns
\* false.
ApplyOne ==
    /\ fixer.pc = "writing"
    /\ LET kind == fixer.fixedFiles[fixer.i]
           last == fixer.i = Len(fixer.fixedFiles)
       IN  IF ~Accepts(fixer.by, kind)
             THEN fixer' = [fixer EXCEPT !.i = @ + 1,
                                         !.pc = IF last THEN "done" ELSE @]
             ELSE \E ok \in WriteOutcomes(kind) :
                    fixer' = IF ok
                               THEN [fixer EXCEPT !.written = @ \cup {fixer.i},
                                                  !.disk = DiskAfter(fixer, fixer.i),
                                                  !.i = @ + 1,
                                                  !.pc = IF last THEN "done" ELSE @]
                               ELSE [fixer EXCEPT !.pc = "aborted"]
    /\ UNCHANGED <<buildvars, logvars, qrev, ans, codec, parser>>

\* ------------------------------------------- parseErrors (part_000)

\* What the route may hand to parseErrors as buildErrors: a string, or any
\* other value of the request body.
InputKinds == {"string", "undefined", "null", "number", "object", "array"}

\* Faulty variant: no look at the type of buildErrors.
IsStringAlways(k) == TRUE

\* typeof buildErrors === 'string'
IsString(k) == k = "string"

\* The characters of a file path in the build output: a letter, the name
\* pom.xml (taken as one character), a slash, a colon.
PChars == {"a", "p", "s", "c"}

ErrPaths == UNION {[1..n -> PChars] : n \in 1..MaxErrPath}

\* The lines of the build output, after trim().
\*   "blank": nothing but white space;
\*   "diag":  [ERROR] <path>:[<line>,<col>] <message>;
\*   "other": any other line.
\* marker: the line holds [ERROR] or [FATAL]; kw: the text of the line
\* apart from its path holds pom.xml, POM or maven.
BlankLine == [form |-> "blank", path |-> <<>>, marker |-> "none", kw |-> FALSE]

ErrLines ==
    {BlankLine}
      \cup {[form |-> "diag", path |-> q, marker |-> "ERROR", kw |-> k] :
                q \in ErrPaths, k \in BOOLEAN}
      \cup {[form |-> "other", path |-> <<>>, marker |-> m, kw |-> k] :
                m \in {"none", "ERROR", "FATAL"}, k \in BOOLEAN}

\* The keys of fileErrors: what path.basename can return for a path, the
\* empty name among them, and pom.xml.
Names == UNION {[1..n -> PChars \ {"s"}] : n \in 0..MaxErrPath}

\* 'pom.xml'
PomName == <<"p">>

\* line.match(/\[ERROR\]\s+([^:]+):\[(\d+)(?:,\d+)?\]\s+(.*)/): the text
\* between the marker and ":[" must hold no colon.
Matches(line) ==
    line.form = "diag" /\ \A i \in 1..Len(line.path) : line.path[i] # "c"

\* path.basename(filePath): trailing slashes are dropped, then what follows
\* the last slash is taken.
RECURSIVE Strip(_)
Strip(q) ==
    IF q # <<>> /\ q[Len(q)] = "s" THEN Strip(SubSeq(q, 1, Len(q) - 1)) ELSE q

Basename(q) ==
    LET t == Strip(q)
        slashes == {i \in 1..Len(t) : t[i] = "s"}
    IN  IF slashes = {} THEN t
        ELSE SubSeq(t, (CHOOSE i \in slashes : \A j \in slashes : j <= i) + 1,
                    Len(t))

\* line.includes('pom.xml') || line.includes('POM') || line.includes('maven')
HasKeyword(line) == line.kw \/ \E i \in 1..Len(line.path) : line.path[i] = "p"

\* line.includes('[ERROR]') || line.includes('[FATAL]')
HasMarker(line) == line.marker \in {"ERROR", "FATAL"}

\* Faulty variant: the keywords are looked for before the file reference.
BucketKeywordFirst(line) ==
    IF line.form = "blank" THEN "none"
    ELSE IF HasKeyword(line) THEN "pom"
    ELSE IF Matches(line) THEN "file"
    ELSE IF HasMarker(line) THEN "general"
    ELSE "none"

\* Where the loop of parseErrors puts a line: each test ends in continue.
Bucket(line) ==
    IF line.form = "blank" THEN "none"
    ELSE IF Matches(line) THEN "file"
    ELSE IF HasKeyword(line) THEN "pom"
    ELSE IF HasMarker(line) THEN "general"
    ELSE "none"

\* The entry pushed for line i of the input.
\*   "located": `Line ${lineNumber}: ${errorMsg}`;
\*   "bare":    the line with its marker replaced by '';
\*   "whole":   the line as it is (the pom.xml list strips [ERROR] only).
Entry(i, line, to) ==
    [from |-> i,
     text |-> IF to = "file" THEN "located"
              ELSE IF to = "pom" /\ line.marker # "ERROR" THEN "whole"
              ELSE "bare"]

\* result.fileErrors and result.generalErrors as first made: a key of
\* fileErrors exists when its list is not empty.
NoErrors == [fileErrors |-> [n \in Names |-> <<>>], generalErrors |-> <<>>]

\* No call of parseErrors yet.
NoParser ==
    [pc |-> "idle", kind |-> "none", input |-> <<>>, result |-> NoErrors]

\* result.fileErrors[name].push(e), the list made first where the key is new.
Push(res, name, e) ==
    [res EXCEPT !.fileErrors[name] = Append(@, e)]

\* One turn of the loop over errorLines, for line i.
ParseLine(res, i, line) ==
    LET to == Bucket(line)
        e == Entry(i, line, to)
    IN  CASE to = "file"    -> Push(res, Basename(line.path), e)
          [] to = "pom"     -> Push(res, PomName, e)
          [] to = "general" -> [res EXCEPT !.generalErrors = Append(@, e)]
          [] OTHER          -> res

\* parseErrors(buildErrors) is called: a value that is no string is logged
\* and answered with the empty result; buildErrors.split('\n') of any
\* other value that is no string throws.
StartParse ==
    /\ parser.pc = "idle"
    /\ \E k \in InputKinds :
         parser' = [parser EXCEPT !.kind = k,
                                  !.pc = IF ~IsString(k) THEN "done"
                                         ELSE IF k # "string" THEN "threw"
                                         ELSE "lines"]
    /\ UNCHANGED <<buildvars, logvars, qrev, ans, codec, fixer>>

\* The loop takes the next line of the input.
NextLine ==
    /\ parser.pc = "lines"
    /\ Len(parser.input) < MaxErrLines
    /\ \E line \in ErrLines :
         parser' = [parser EXCEPT
                       !.input = Append(@, line),
                       !.result = ParseLine(@, Len(parser.input) + 1, line)]
    /\ UNCHANGED <<buildvars, logvars, qrev, ans, codec, fixer>>

\* The input is through (split gives one line at least): return result.
EndParse ==
    /\ parser.pc = "lines"
    /\ Len(parser.input) >= 1
    /\ parser' = [parser EXCEPT !.pc = "done"]
    /\ UNCHANGED <<buildvars, logvars, qrev, ans, codec, fixer>>

\* ------------------------------------------- log broadcast (buildLogs.ts)

Clients == 1..MaxClients

\* The plugin names of the requests: the project whose build is followed
\* (path.basename(pluginDir) of the run) and another project.
PluginNames == {"built", "other"}

BuiltPlugin == "built"

\* How a stream takes stream.write(data): it accepts the data, its buffer
\* is over the high-water mark because the client reads slowly or not at
\* all (write returns false), or the write throws.
ObsKinds == {"ok", "slow", "broken"}

\* Every stream accepts what is written to it.
Healthy == [c \in Clients |-> "ok"]

\* The first line of build.log, "Build started at ..." or "Build attempt
\* N started at ...", written by the server, and by the script of part_007,
\* when they reset the file.
Hdr == 0

\* The greeting written to a new stream: "Connected to log stream".
Greeting == -1

\* Kinds of line the script puts out.
\*   "log":      log LEVEL MESSAGE: echo to stdout and echo >> "$LOG_FILE";
\*   "tool":     output of mvn in a normal or no-shade build (verbose):
\*               stdout;
\*   "captured": output of mvn in the compile-only build, kept in
\*               BUILD_ERRORS by the command substitution.
Kinds == {"log", "tool", "captured"}

\* No build followed yet.  dir: where the project directory of the run
\* lies: "cwd", it is the directory of that name under the server's working
\* directory, the one the log stream and the status query look at;
\* "outside", it is a directory of the same base name somewhere else.
NoLogRun ==
    [route |-> "none", phase |-> "idle", attempt |-> 0, sinit |-> FALSE,
     dir |-> "cwd"]

\* Whether the script itself appends a line of this kind to build.log.
ToFile(kind) == kind = "log"

\* Whether a line of this kind goes to the script's stdout.
ToStdout(kind) == kind \in {"log", "tool"}

\* Faulty variant: no try/catch around stream.write, the first throw ends
\* the forEach (here: before any stream was written to).
BroadcastNoCatch(g, id) ==
    IF \E c \in activeStreams[BuiltPlugin] : obs[c] = "broken" THEN g
    ELSE [c \in Clients |->
            IF c \in activeStreams[BuiltPlugin] THEN Append(g[c], id) ELSE g[c]]

\* broadcastLogMessage(path.basename(pluginDir), output): the message is
\* written to every stream registered for the plugin.  A write that throws
\* is caught and logged, and the forEach goes on; a write to a stream whose
\* reader is slow returns false, which nothing looks at, and the data stays
\* in the stream's buffer.
Broadcast(g, id) ==
    [c \in Clients |->
        IF c \in activeStreams[BuiltPlugin] /\ obs[c] # "broken"
          THEN Append(g[c], id) ELSE g[c]]

\* The routes that write build.log and broadcast: POST /api/build and the
\* auto-fix build route.  The spawn is followed at once by the reset of
\* build.log.
LogStart ==
    /\ lrun.phase = "idle"
    /\ \E rt \in {"build", "autofix"} :
         lrun' = [route |-> rt, phase |-> "running", attempt |-> 1,
                  sinit |-> FALSE, dir |-> "cwd"]
    /\ buildLog' = <<Hdr>>
    /\ UNCHANGED <<auxvars, buildvars, lines, pipe, streamvars, got, since>>

\* POST /api/build with a pluginDir that is not under the server's working
\* directory and has the base name of a project that is: the body's
\* pluginDir is used as it comes.
LogStartOutside ==
    /\ lrun.phase = "idle"
    /\ lrun' = [route |-> "build", phase |-> "running", attempt |-> 1,
                sinit |-> FALSE, dir |-> "outside"]
    /\ buildLog' = <<Hdr>>
    /\ UNCHANGED <<auxvars, buildvars, lines, pipe, streamvars, got, since>>

\* The script sets up its log: echo "" > "$LOG_FILE" in src/bash.sh, which
\* leaves one empty line, echo "Build started at ..." > "$LOG_FILE" in
\* part_007.
ScriptInitLog ==
    /\ lrun.phase = "running"
    /\ ~lrun.sinit
    /\ lrun' = [lrun EXCEPT !.sinit = TRUE]
    /\ buildLog' = IF rev = "part_007" THEN <<Hdr>> ELSE <<>>
    /\ UNCHANGED <<auxvars, buildvars, lines, pipe, streamvars, got, since>>

\* The script puts out one line.
Emit ==
    /\ lrun.phase = "running"
    /\ lrun.sinit
    /\ Len(lines) < MaxLines
    /\ \E k \in Kinds :
         LET id == Len(lines) + 1
         IN  /\ lines' = Append(lines, k)
             /\ buildLog' = IF ToFile(k) THEN Append(buildLog, id) ELSE buildLog
             /\ pipe' = IF ToStdout(k) THEN Append(pipe, id) ELSE pipe
    /\ UNCHANGED <<auxvars, buildvars, lrun, streamvars, got, since>>

\* The script ends.
ScriptExit ==
    /\ lrun.phase = "running"
    /\ lrun.sinit
    /\ lrun' = [lrun EXCEPT !.phase = "exited"]
    /\ UNCHANGED <<auxvars, buildvars, lines, pipe, buildLog, streamvars, got, since>>

\* buildProcess.stdout.on('data'): the output is appended to build.log and
\* broadcast.  (One line a chunk.)
OnData ==
    /\ pipe # <<>>
    /\ pipe' = Tail(pipe)
    /\ buildLog' = Append(buildLog, Head(pipe))
    /\ got' = Broadcast(got, Head(pipe))
    /\ UNCHANGED <<auxvars, buildvars, lrun, lines, streamvars, since>>

\* buildProcess.on('close'), after the pipe is drained: the run is over,
\* or the auto-fix route runs executeBuild again, which resets build.log.
OnCloseLog ==
    /\ lrun.phase = "exited"
    /\ pipe = <<>>
    /\ \/ /\ lrun' = [lrun EXCEPT !.phase = "done"]
          /\ UNCHANGED buildLog
       \/ /\ lrun.route = "autofix"
          /\ lrun.attempt < maxBuildAttempts
          /\ lrun' = [lrun EXCEPT !.phase = "running", !.attempt = @ + 1,
                                  !.sinit = FALSE]
          /\ buildLog' = <<Hdr>>
    /\ UNCHANGED <<auxvars, buildvars, lines, pipe, streamvars, got, since>>

\* Client c has a request to the log stream whose 'close' is yet to come.
Open(c) == pluginOf[c] # "none" /\ c \notin ended

\* The lines of build.log in the directory of name p under the server's
\* working directory.  No build runs on the other project, which has no
\* build.log, and none on the project of that place when the run is on a
\* directory outside.
LogOf(p) == IF p = BuiltPlugin /\ lrun.dir = "cwd" THEN buildLog ELSE <<>>

\* GET /api/build-logs/:pluginName: a new stream is registered under the
\* plugin name, greeted, and the lines of build.log are written to it.
Subscribe(c) ==
    /\ ~Open(c)
    /\ \E p \in PluginNames :
         /\ activeStreams' = [activeStreams EXCEPT ![p] = @ \cup {c}]
         /\ pluginOf' = [pluginOf EXCEPT ![c] = p]
         /\ got' = [got EXCEPT ![c] = <<Greeting>> \o LogOf(p)]
    /\ ended' = ended \ {c}
    /\ since' = [since EXCEPT ![c] = Len(lines)]
    /\ UNCHANGED <<auxvars, buildvars, lrun, lines, pipe, buildLog, obs>>

\* Faulty variant: the whole entry of the plugin is deleted.
RemoveAll(reg, p, c) == [reg EXCEPT ![p] = {}]

\* const streams = activeStreams.get(pluginName); if (streams) {
\* streams.delete(stream); if (streams.size === 0) delete the key }.  A
\* plugin name without a key is a name with no stream.
RemoveStream(reg, p, c) == [reg EXCEPT ![p] = @ \ {c}]

\* req.on('close'): the stream is removed from the registry and ended.
Unsubscribe(c) ==
    /\ Open(c)
    /\ activeStreams' = RemoveStream(activeStreams, pluginOf[c], c)
    /\ ended' = ended \cup {c}
    /\ UNCHANGED <<auxvars, buildvars, lrun, lines, pipe, buildLog, pluginOf, obs, got,
                   since>>

\* ---------------------------------------------------------- specifications

\* A fresh project directory, no build requested yet.
InitFiles ==
    /\ rev \in Revs
    /\ pom \in BOOLEAN
    /\ sh = [r \in Runs |-> NoScript]
    /\ srv = [r \in Runs |-> NoRun]
    /\ status = NoStatus
    /\ result = NoResult
    /\ jar = FALSE
    /\ logFile = {}
    /\ ans = NoAnswer
    /\ codec = NoCodec
    /\ fixer = NoFixer
    /\ parser = NoParser
    /\ hist = [r \in Runs |-> NoHist]
    /\ lrun = NoLogRun
    /\ lines = <<>>
    /\ pipe = <<>>
    /\ buildLog = <<>>
    /\ activeStreams = [p \in PluginNames |-> {}]
    /\ pluginOf = [c \in Clients |-> "none"]
    /\ ended = {}
    /\ got = [c \in Clients |-> <<>>]
    /\ since = [c \in Clients |-> 0]

\* Up to MaxRuns runs of the script on the project, each started from a
\* shell or by POST /api/build, with the history of the first recorded.
InitScript ==
    InitFiles /\ track = {1} /\ obs = Healthy /\ qrev = "buildStatus_ts"

NextScript ==
    \E r \in Runs :
        \/ StartCli(r)
        \/ StartBuild(r)
        \/ ScriptStep(r)
        \/ OnTimeout(r)
        \/ OnClose(r)
        \/ OnError(r)

SpecScript == InitScript /\ [][NextScript]_vars

\* The server with one build request for the project, on any route.
Init == InitFiles /\ track = {} /\ obs = Healthy /\ qrev = "buildStatus_ts"

Next ==
    \/ StartBuild(1)
    \/ StartAutofix(1)
    \/ StartCreate(1)
    \/ ScriptStep(1)
    \/ OnTimeout(1)
    \/ OnClose(1)
    \/ OnError(1)
    \/ OnCloseAutofix(1)
    \/ AttemptFixDone(1)
    \/ OnErrorAutofix(1)
    \/ OnCloseCreate(1)

Spec == Init /\ [][Next]_vars

\* No request has reached the auto-fix build route.
NoAutofix == \A r \in Runs : srv[r].route # "autofix"

\* No request has been made at all.
NoRequest == \A r \in Runs : srv[r].route = "none"

\* The requests considered for liveness: up to MaxRuns requests through
\* POST /api/build and the create route, at any time, or one request to the
\* auto-fix build route on a project with no other request.
NextLive ==
    \E r \in Runs :
        \/ NoAutofix /\ StartBuild(r)
        \/ NoAutofix /\ StartCreate(r)
        \/ NoRequest /\ StartAutofix(r)
        \/ ScriptStep(r)
        \/ OnTimeout(r)
        \/ OnClose(r)
        \/ OnError(r)
        \/ OnCloseAutofix(r)
        \/ AttemptFixDone(r)
        \/ OnErrorAutofix(r)
        \/ OnCloseCreate(r)

\* What the event loop and the fix service guarantee: a timer that is set
\* fires unless it is cleared, and the request of attemptFix is answered
\* or fails.  Nothing is assumed of the script, whose commands may hang.
Fairness ==
    \A r \in Runs :
        /\ WF_vars(OnTimeout(r))
        /\ WF_vars(AttemptFixDone(r))

SpecLive == Init /\ [][NextLive]_vars /\ Fairness

\* The server with up to MaxRuns requests for the same project, through
\* POST /api/build or the create route, with the script the server spawns
\* (bash.sh).
InitConc == Init /\ rev = "bash_sh"

NextConc ==
    \E r \in Runs :
        \/ StartBuild(r)
        \/ StartCreate(r)
        \/ ScriptStep(r)
        \/ OnTimeout(r)
        \/ OnClose(r)
        \/ OnError(r)
        \/ OnCloseCreate(r)

SpecConc == InitConc /\ [][NextConc]_vars

\* The output of one run, from the script to the clients of the log stream.
InitLog == Init /\ rev = "bash_sh" /\ pom

NextLog ==
    \/ LogStart
    \/ ScriptInitLog
    \/ Emit
    \/ ScriptExit
    \/ OnData
    \/ OnCloseLog
    \/ \E c \in Clients : Subscribe(c) \/ Unsubscribe(c)

SpecLog == InitLog /\ [][NextLog]_vars

\* The output of one run of POST /api/build, with clients whose streams
\* may be slow or may fail on a write.
InitPub ==
    /\ InitFiles
    /\ track = {}
    /\ qrev = "buildStatus_ts"
    /\ rev = "bash_sh"
    /\ pom
    /\ obs \in [Clients -> ObsKinds]

NextPub ==
    \/ LogStart /\ lrun'.route = "build"
    \/ ScriptInitLog
    \/ Emit
    \/ ScriptExit
    \/ OnData
    \/ OnCloseLog
    \/ \E c \in Clients : Subscribe(c) \/ Unsubscribe(c)

SpecPub == InitPub /\ [][NextPub]_vars

\* No build of the project is under way as far as run r can tell: every
\* other request is over.
Quiet(r) == \A o \in Runs \ {r} : srv[o].phase \in {"idle", "done"}

\* Status queries at any time, on a project that is built by one request
\* after the other, through POST /api/build or the create route, with
\* either revision of the status route.
InitStatus ==
    /\ InitFiles
    /\ track = {}
    /\ obs = Healthy
    /\ qrev \in QRevs
    /\ rev = "bash_sh"
    /\ pom

NextStatus ==
    \/ GetStatus
    \/ \E r \in Runs :
        \/ Quiet(r) /\ StartBuild(r)
        \/ Quiet(r) /\ StartCreate(r)
        \/ ScriptStep(r)
        \/ OnTimeout(r)
        \/ OnClose(r)
        \/ OnError(r)
        \/ OnCloseCreate(r)

SpecStatus == InitStatus /\ [][NextStatus]_vars

\* A result record written to build_result.json and read back by the
\* status query, for every path and either writer.
NextCodec == WriteResult \/ ReadBack

SpecCodec == Init /\ [][NextCodec]_vars

\* The files of an answer of the fix service written to disk, for every
\* answer and either applier.
NextApply == StartApply \/ ApplyOne

SpecApply == Init /\ [][NextApply]_vars

\* One call of parseErrors, for every input; the script and the project
\* play no part in it.
InitParse == Init /\ rev = "bash_sh" /\ pom

NextParse == StartParse \/ NextLine \/ EndParse

SpecParse == InitParse /\ [][NextParse]_vars

\* One run of src/bash.sh on a project with a pom.xml, started from a shell
\* or by POST /api/build, with its history recorded.
InitRun == InitScript /\ rev = "bash_sh" /\ pom

NextRun ==
    \/ StartCli(1)
    \/ StartBuild(1)
    \/ ScriptStep(1)
    \/ OnTimeout(1)
    \/ OnClose(1)
    \/ OnError(1)

SpecRun == InitRun /\ [][NextRun]_vars

\* Runs of POST /api/build on project directories of one base name, under
\* the server's working directory and outside it, with the clients of the
\* log stream.
NextDirs ==
    \/ LogStart /\ lrun'.route = "build"
    \/ LogStartOutside
    \/ ScriptInitLog
    \/ Emit
    \/ ScriptExit
    \/ OnData
    \/ OnCloseLog
    \/ \E c \in Clients : Subscribe(c) \/ Unsubscribe(c)

SpecDirs == InitLog /\ [][NextDirs]_vars

\* -------------------------------------------------- claims about the script

\* The script of run r has ended (its 'close' is not handled yet).
Ended(r) == sh[r].pc = "exited"

\* C1 (as stated): the fix loop never runs more than MAX_AI_FIX_ATTEMPTS
\* iterations, and a script that ends with the budget used up and no
\* successful build has attempted the no-shade fallback exactly once.
C1_AsStated ==
    \A r \in track :
        /\ hist[r].compiles <= MAX_AI_FIX_ATTEMPTS
        /\ hist[r].noShade <= 1
        /\ (Ended(r) /\ sh[r].attempts = MAX_AI_FIX_ATTEMPTS /\ ~sh[r].buildSuccess)
              => hist[r].noShade = 1

ZeroPatches(r) == hist[r].fixReqs >= 1 /\ hist[r].zeroTail

\* C4 (as stated): a run whose remaining fix responses all hold no file
\* ends failed, with the attempt budget used up.
C4_AsStated ==
    \A r \in track :
        (Ended(r) /\ ZeroPatches(r)) =>
            /\ sh[r].code # 0
            /\ sh[r].attempts = MAX_AI_FIX_ATTEMPTS

\* -------------------------------------------------- claims about the server

\* build_status.json holds a terminal state.
Terminal(st) == st.state \in {"completed", "failed"}

C5_AsStated ==
    [][\A r \in Runs :
         srv[r].wrote \in {"completed", "failed"} => srv'[r].wrote = srv[r].wrote]_vars

\* The processes of the build script that are running.
Active == {r \in Runs : Alive(sh[r])}

\* C6 (as stated): at most one build script runs on the project directory
\* at any time.
C6_AsStated == Cardinality(Active) <= 1

\* ------------------------------------------- claims about the log broadcast

\* The lines put out so far, by number.
Events == 1..Len(lines)

\* a is written to the stream (or file) q before b is.
Before(q, a, b) == \E i, j \in DOMAIN q : i < j /\ q[i] = a /\ q[j] = b

\* How often line e occurs in q.
Count(q, e) == Cardinality({i \in DOMAIN q : q[i] = e})

\* C7 (as stated): every client is sent the lines in the order the script
\* put them out, replayed ones and live ones alike, and no two clients are
\* sent two different lines in opposite orders.
C7_AsStated ==
    \A c, d \in Clients : \A a, b \in Events :
        /\ a < b => ~Before(got[c], b, a)
        /\ (a # b /\ Before(got[c], a, b)) => ~Before(got[d], b, a)

\* C8 (as stated): no line is written twice to the stream of a client, and
\* build.log holds no line twice.
C8_AsStated ==
    \A e \in Events :
        /\ Count(buildLog, e) <= 1
        /\ \A c \in Clients : Count(got[c], e) <= 1

\* Line e of the build tool has left the script and the server has read
\* whatever the script wrote of it to its stdout.
Settled(e) ==
    /\ lines[e] \in {"tool", "captured"}
    /\ \A i \in DOMAIN pipe : pipe[i] # e

\* C9 (as stated): every line the build tool put out, in any build mode,
\* while a client was connected has been written to that client's stream
\* once the server has read the script's output.
C9_AsStated ==
    \A c \in activeStreams[BuiltPlugin] : \A e \in Events :
        (e > since[c] /\ Settled(e)) => Count(got[c], e) >= 1

\* Every line the script published before client c connected, and the
\* server has read, was written to the stream of c.
CatchUp(c) ==
    \A e \in Events :
        (e <= since[c] /\ ToStdout(lines[e]) /\ \A i \in DOMAIN pipe : pipe[i] # e)
            => Count(got[c], e) >= 1

\* build.log keeps what it holds in this step.
AppendOnly ==
    /\ Len(buildLog') >= Len(buildLog)
    /\ SubSeq(buildLog', 1, Len(buildLog)) = buildLog

\* C10 (as stated): a client that connects during a run is sent every line
\* of the run published before it connected, and build.log only grows
\* during a run.
C10_AsStated ==
    /\ [](\A c \in activeStreams[BuiltPlugin] : CatchUp(c))
    /\ [][lrun.phase \in {"running", "exited"} => AppendOnly]_vars

\* ------------------------------------------- claims about the subscribers

\* The registry holds exactly the streams of the open requests, each under
\* the plugin name of its request.
RegistryExact ==
    \A c \in Clients : \A p \in PluginNames :
        c \in activeStreams[p] <=> (Open(c) /\ pluginOf[c] = p)

\* Running the handler of 'close' a second time changes nothing.
RemoveTwice ==
    \A c \in Clients : \A p \in PluginNames :
        RemoveStream(RemoveStream(activeStreams, p, c), p, c)
            = RemoveStream(activeStreams, p, c)

\* This step is the handler of 'close' of client c.
Leaves(c) == c \in ended' /\ c \notin ended

\* The step leaves client d as it is: registered or not, ended or not.
Untouched(d) ==
    /\ d \in ended' <=> d \in ended
    /\ \A p \in PluginNames : d \in activeStreams'[p] <=> d \in activeStreams[p]

\* This step is the server reading one line from the script's stdout.
Reads == pipe # <<>> /\ pipe' = Tail(pipe)

\* C11: removing a stream a second time leaves the registry as the first
\* removal left it; the removal of one client's stream takes no other
\* client out of the registry, of the same plugin or of another, and ends
\* no other stream; and every line the server reads is written to every
\* stream that is registered for the plugin.
C11_Isolated ==
    /\ [](RemoveTwice /\ RegistryExact)
    /\ [][\A c \in Clients : Leaves(c) =>
            \A d \in Clients \ {c} : Untouched(d)]_vars
    /\ [][Reads => \A d \in activeStreams[BuiltPlugin] :
                     got'[d] = Append(got[d], Head(pipe))]_vars

\* Line e was written live to the stream of d and not to the stream of c,
\* though c had connected before it was put out.
LaterEvent(c, d, e) ==
    /\ e > since[c]
    /\ e > since[d]
    /\ Count(got[d], e) >= 1
    /\ Count(got[c], e) = 0

\* C11 witness: client c of the plugin has disconnected, another client of
\* the plugin is still registered and was sent a line after c had gone.
C11_Witness ==
    \E c, d \in Clients :
        /\ c # d
        /\ c \in ended
        /\ pluginOf[c] = BuiltPlugin
        /\ d \in activeStreams[BuiltPlugin]
        /\ \E e \in Events : LaterEvent(c, d, e)

\* C12: the server can read a line from the script's stdout whenever one is
\* there, whatever the streams of the clients do; and reading it appends it
\* to build.log and writes it to every registered stream of the plugin
\* whose write does not throw, slow ones included.
C12_NonBlocking ==
    /\ [](pipe # <<>> => ENABLED OnData)
    /\ [][Reads =>
            /\ buildLog' = Append(buildLog, Head(pipe))
            /\ \A d \in activeStreams[BuiltPlugin] :
                    obs[d] # "broken" => got'[d] = Append(got[d], Head(pipe))]_vars

\* C12 witness: with a client registered whose stream throws on a write,
\* a line that was not written to it is in build.log and was written live
\* to the stream of another client.
C12_Witness ==
    \E c, d \in activeStreams[BuiltPlugin] :
        /\ obs[c] = "broken"
        /\ obs[d] = "ok"
        /\ \E e \in Events : LaterEvent(c, d, e) /\ Count(buildLog, e) >= 1

\* C13 (as stated): when the run ends, the streams of the plugin's log are
\* ended: the step that ends the run leaves none of them registered.
C13_AsStated ==
    [][(lrun.phase # "done" /\ lrun'.phase = "done")
          => activeStreams'[BuiltPlugin] = {}]_vars

\* This step is the kill timer of run r firing: the one place where the
\* server stops a build.
Kills(r) ==
    /\ srv[r].timer
    /\ ~srv'[r].timer
    /\ srv'[r].phase = srv[r].phase
    /\ status' = StTimeout

\* C14 (as stated): when the server stops a run, the script is no longer
\* running and the status is failed with the reason cancelled.
C14_AsStated ==
    [][\A r \in Runs : Kills(r) =>
          /\ ~Alive(sh'[r])
          /\ status'.state = "failed"
          /\ status'.error = "cancelled"]_vars

\* ------------------------------------------- claims about the status query

\* C15 (as stated): while the project has neither a status record nor a
\* result record, a status query is answered with success and the state
\* not started.
C15_AsStated ==
    (status = NoStatus /\ result = NoResult)
        => \A a \in Answers : a = Pending("not_started")

\* C17 (as stated): a status query never reads a partly written record and
\* never fails to parse what it read.
C17_AsStated == Torn \notin ReadResults /\ ParseError \notin Answers

\* The script has not written a result record.
NotWritten(s) == Alive(s) /\ ~s.buildSuccess

\* Run r, started by POST /api/build, has written status in_progress, which
\* is still the status, and neither its script nor its server handlers
\* have written a result.
Fresh(r) ==
    /\ srv[r].route = "build"
    /\ srv[r].phase = "running"
    /\ status = StInProgress
    /\ NotWritten(sh[r])

\* C18 (as stated): once a new run has written in_progress, no status
\* query is answered with the result record an earlier run left.
C18_AsStated ==
    \A r \in Runs : Fresh(r) =>
        \A a \in Answers :
            ~(a.buildComplete /\ a.buildResult.by \in {"script", "server"})

\* C16 (as stated): a result record read back by the status query is the
\* record that was written, whoever wrote it.
C16_AsStated ==
    codec.pc = "read" => codec.back = [ok |-> TRUE, val |-> codec.val]

\* ------------------------------------------- claims about the fixed files

\* C20 (as stated): no file is written at a path with ".." or at an
\* absolute path, and once the applier is through, every other file of the
\* answer has been written; no answer makes the applier give up.
C20_AsStated ==
    /\ \A i \in fixer.written : fixer.fixedFiles[i] = "inside"
    /\ fixer.pc # "aborted"
    /\ fixer.pc = "done" =>
          \A i \in DOMAIN fixer.fixedFiles :
              fixer.fixedFiles[i] = "inside" => i \in fixer.written

\* ------------------------------------------- claims about the persisted state

\* C19 (as stated): build.log has one writer in a run, and no status query
\* has written the result record.
C19_AsStated == Cardinality(logFile) <= 1 /\ result.by # "query"

\* ------------------------------------------- claims about the fix loop

\* C21 (as stated): no fix request ends the script, whatever comes back:
\* the script goes on to its next iteration or to the build that follows.
C21_AsStated ==
    [][\A r \in Runs : FixRequest(r) => sh'[r].pc \in {"loop", "rebuild"}]_vars

\* No TERM signal was sent to the script of run r: it was started from a
\* shell, or the kill timer of its request is still pending.
NotKilled(r) == srv[r].route = "cli" \/ srv[r].timer

\* The script of run r, src/bash.sh on a project with a pom.xml, has ended
\* and the last record it wrote to build_result.json, if any, is no
\* success.
EndedFailed(r) ==
    /\ rev = "bash_sh" /\ pom
    /\ Ended(r) /\ NotKilled(r)
    /\ ~hist[r].res.success

\* C22 (as stated): a script ends in failure only with its fix attempts
\* used up and its no-shade build tried, and the failure it records names
\* an error report.
C22_AsStated ==
    \A r \in track :
        EndedFailed(r) =>
            /\ sh[r].attempts = MAX_AI_FIX_ATTEMPTS
            /\ hist[r].noShade = 1
            /\ hist[r].res.errorReport

\* C26 (as stated): when the no-shade build fails after the fix attempts,
\* the failure record the script writes names an error report, and no
\* other record does.
C26_AsStated ==
    /\ [][\A r \in Runs :
            (Fallback(r) /\ sh'[r].pc = "exited") => result'.errorReport]_vars
    /\ [](result.errorReport => (~result.success /\ result.by = "script"))

\* ------------------------------------------- claims about the time-out

\* The script of run r is in a normal build: mvn clean package of the
\* first build or of a retry in the fix loop.
InNormalBuild(r) == sh[r].pc \in {"build1", "rebuild"}

\* C23 (as stated): a time-out that falls into a normal build does not end
\* the run: the status is not made failed by it and the script goes on.
C23_AsStated ==
    [][\A r \in Runs :
         (OnTimeout(r) /\ InNormalBuild(r)) =>
             /\ ~Terminal(status')
             /\ Alive(sh'[r])]_vars

\* C24 (as stated): the status the time-out wrote is still there after the
\* close event of the script has been handled.
C24_AsStated ==
    [][\A r \in Runs :
         (status = StTimeout /\ (OnClose(r) \/ OnCloseAutofix(r)))
             => status' = StTimeout]_vars

\* ------------------------------------------- claims about the result record

\* This step is the script of some run writing the record of its no-shade
\* build.
WritesFallback == \E r \in Runs : sh[r].pc = "verifyF" /\ sh'[r].pc # "verifyF"

\* C25: a success record written by the script carries noShade exactly
\* when it is the record of the no-shade build, and a record that carries
\* noShade is a success written by the script.
C25_Degraded ==
    /\ [][(result' # result /\ result'.by = "script" /\ result'.success)
             => (result'.noShade <=> WritesFallback)]_vars
    /\ [](result.noShade => (result.success /\ result.by = "script"))

\* The no-shade build succeeded, its jar was verified and the record is
\* written.
C25_Witness ==
    /\ result = ResNoShade
    /\ sh[1].pc = "exited" /\ sh[1].attempts = MAX_AI_FIX_ATTEMPTS

\* ------------------------------------------- claims about the validation

\* The script of run r has run no mvn and sent no fix request: it was not
\* spawned, or is before its check for pom.xml, or ended there.
NothingBuilt(r) == sh[r].pc \in {"none", "start", "exited", "closed"}

EmptyInput == parser.kind = "string" /\ parser.input = <<BlankLine>>

\* C28: for a value that is no string and for the empty string parseErrors
\* returns the empty result, and it does not throw.
C28_NoThrow ==
    /\ parser.pc # "threw"
    /\ parser.kind \notin {"none", "string"} =>
           parser.pc = "done" /\ parser.result = NoErrors
    /\ (parser.pc = "done" /\ EmptyInput) => parser.result = NoErrors

\* parseErrors(null) has returned.
C28_Witness ==
    parser.pc = "done" /\ parser.kind = "null" /\ parser.result = NoErrors

\* The places of list q whose entry comes from line i of the input.
From(q, i) == {k \in 1..Len(q) : q[k].from = i}

\* The number of entries of the whole result that come from line i.
Placed(i) ==
    Cardinality(From(parser.result.generalErrors, i))
      + Cardinality({n \in Names : From(parser.result.fileErrors[n], i) # {}})

\* Line i has exactly one entry in the list of file name n and none
\* anywhere else.
OnlyInFile(i, n) ==
    /\ Cardinality(From(parser.result.fileErrors[n], i)) = 1
    /\ Placed(i) = 1

\* C29 (as stated): every line [ERROR] <path>:[<line>,<col>] <message> of the
\* input has the entry 'Line <line>: <message>' in the list of the base name
\* of its path, once, and no entry anywhere else.
C29_AsStated ==
    \A i \in 1..Len(parser.input) :
        LET line == parser.input[i]
            n == Basename(line.path)
        IN  line.form = "diag" =>
                /\ OnlyInFile(i, n)
                /\ \A k \in From(parser.result.fileErrors[n], i) :
                       parser.result.fileErrors[n][k].text = "located"

\* List q holds its entries in the order of their lines.
InOrder(q) == \A j, k \in 1..Len(q) : j < k => q[j].from < q[k].from

C31_AsStated ==
    /\ \A p \in FilePaths :
         fixer.disk[p] # "old" =>
             \E k \in DOMAIN fixer.keys :
                 fixer.keys[k] = p /\ fixer.fixedFiles[k] = "inside"
    /\ (fixer.short /\ \A k \in DOMAIN fixer.fixedFiles :
                          fixer.fixedFiles[k] = "inside") =>
           /\ fixer.pc # "aborted"
           /\ fixer.pc = "done" => fixer.written = DOMAIN fixer.fixedFiles

\* ------------------------------------------- claims about the verification

\* C32 (as stated): a build that succeeded is followed by the search for
\* the jar and its verification, and the verification ends the run: the
\* script exits, or has recorded its success and leaves the loop; after a
\* verification that failed no fix attempt and no build follows.
C32_AsStated ==
    [][\A r \in Runs :
         /\ (Find1(r) \/ FindLoop(r) \/ FindFallback(r))
               => sh'[r].pc \in {"verify1", "verifyL", "verifyF", "exited"}
         /\ (Verify1(r) \/ VerifyLoop(r) \/ VerifyFallback(r))
               => (sh'[r].pc = "exited" \/ sh'[r].buildSuccess)]_vars

\* ------------------------------------------- claims about the fix iteration

\* C33 (as stated): in an iteration the fix request follows the
\* compile-only build and the normal build follows the fix request; the
\* normal build of the loop runs only when the answer held a file at
\* least; and once a build has succeeded with a verified jar the script
\* runs no compile-only build, fix request or no-shade build.
C33_AsStated ==
    [][\A r \in track :
         /\ (sh'[r].pc = "fix" /\ sh[r].pc # "fix") => sh[r].pc = "compile"
         /\ (sh'[r].pc = "rebuild" /\ sh[r].pc # "rebuild") => sh[r].pc = "fix"
         /\ Rebuild(r) => (hist[r].fixReqs >= 1 /\ ~hist[r].zeroTail)
         /\ sh[r].buildSuccess =>
                sh'[r].pc \notin {"compile", "fix", "rebuild", "fallback"}]_vars

\* ------------------------------------------- claims about the attempt budget

\* The script of run r goes on in this step (it is not replaced by a new
\* process and its process object is not dropped).
SameScript(r) == Alive(sh[r]) /\ sh'[r].pc \notin {"start", "spawnerr", "closed"}

\* The latest record the script of run r wrote is the success of a build
\* inside the fix loop.
SucceededInLoop(r) ==
    hist[r].res.success /\ ~hist[r].res.noShade /\ hist[r].inLoopBuilds >= 1

\* C34: the attempt counter changes only at the start of an iteration, by
\* one, whatever the iteration comes to; it never passes
\* MAX_AI_FIX_ATTEMPTS; and the success record of a build inside the loop
\* gives as the number of fixes the number of iterations started, which is
\* between 1 and MAX_AI_FIX_ATTEMPTS.
C34_Budget ==
    /\ [][\A r \in Runs : SameScript(r) =>
            IF sh[r].pc = "loop" /\ sh'[r].pc = "compile"
              THEN sh'[r].attempts = sh[r].attempts + 1
              ELSE /\ sh'[r].attempts = sh[r].attempts
                   /\ sh'[r].pc = "compile" => sh[r].pc = "compile"]_vars
    /\ [](\A r \in Runs : sh[r].attempts <= MAX_AI_FIX_ATTEMPTS)
    /\ [](\A r \in track : SucceededInLoop(r) =>
              /\ hist[r].res.fixes = hist[r].compiles
              /\ sh[r].pc # "closed" => hist[r].res.fixes = sh[r].attempts
              /\ hist[r].res.fixes \in 1..MAX_AI_FIX_ATTEMPTS)

\* The build of the second iteration succeeded with a verified jar, after
\* a first iteration whose rebuild failed.
C34_Witness ==
    /\ SucceededInLoop(1)
    /\ hist[1].res.fixes = 2 /\ hist[1].inLoopBuilds = 2
    /\ sh[1].buildSuccess

\* ------------------------------------------- claims about other projects

\* C35 (as stated): a line put out by the run of one project is written
\* to the streams of that project's clients only: the client asked for the
\* run's base name and the run is on the directory of that name the
\* client's request stands for.
C35_AsStated ==
    \A c \in Clients : \A e \in Events :
        Count(got[c], e) >= 1 =>
            (pluginOf[c] = BuiltPlugin /\ lrun.dir = "cwd")

\* ------------------------------------------- claims about the two records

\* The request of run r, to a route that keeps a status record, is over:
\* the server has handled the last event of its script.
RunOver(r) == srv[r].route \in {"build", "autofix"} /\ srv[r].phase = "done"

\* C36 (as stated): once a run is over and build_status.json holds a
\* terminal state, build_result.json exists and says success exactly when
\* the status is completed.
C36_AsStated ==
    \A r \in Runs :
        (RunOver(r) /\ Terminal(status)) =>
            /\ result # NoResult
            /\ result.success <=> (status.state = "completed")

\* ------------------------------------------- claims about the success record

\* C37 (as stated): while the script of a run is at work and has recorded
\* no build of its own, build_result.json holds no success and no status
\* query is answered with one.
C37_AsStated ==
    \A r \in Runs :
        (srv[r].phase = "running" /\ NotWritten(sh[r])) =>
            /\ ~result.success
            /\ \A a \in Answers : ~(a.buildComplete /\ a.buildResult.success)

\* ------------------------------------------- claims about the exit status

\* C38 (as stated): a script that has ended, no signal having reached it,
\* has written a result record, and its exit status is 0 exactly when the
\* record it wrote last says success.
C38_AsStated ==
    \A r \in track :
        (Ended(r) /\ NotKilled(r)) =>
            /\ hist[r].res.by = "script"
            /\ (sh[r].code = 0) <=> hist[r].res.success

\* ------------------------------------------- claims about the auto-fix route

\* This step starts a further build attempt of the request of run r.
NextAttempt(r) ==
    /\ srv[r].route = "autofix"
    /\ srv[r].buildAttempts >= 1
    /\ srv'[r].buildAttempts = srv[r].buildAttempts + 1

\* C39 (as stated): a request to the auto-fix route runs the build
\* maxBuildAttempts times at most and asks for a fix only after an attempt
\* that is not the last, so maxBuildAttempts - 1 times at most; a further
\* attempt is started only when a fix request has come back, and none
\* after the request has recorded completed.
C39_AsStated ==
    /\ [](\A r \in Runs :
             /\ srv[r].buildAttempts <= maxBuildAttempts
             /\ srv[r].phase = "fixing" => srv[r].buildAttempts < maxBuildAttempts)
    /\ [][\A r \in Runs : NextAttempt(r) =>
             /\ srv[r].phase = "fixing"
             /\ srv[r].wrote # "completed"]_vars

====
